---------------------------- MODULE Spec2Model ----------------------------
(***************************************************************************)
(* Model of src/main.cc: a variadic logging prototype.                     *)
(*                                                                         *)
(*   LOG(fmt, args...)   static_assert on the arity, a per-call-site       *)
(*                       static BaseLogFormatter* and WriteLog             *)
(*   WriteLog            creates the LogFormatter<Args...> on first use,   *)
(*                       then LogWriter::Write                             *)
(*   LogWriter::Write    GetArgsSize, GetLogBuffer (the one static         *)
(*                       Header), CopyArgs (memcpy of each argument)       *)
(*   LogConsumer::Consume   header.mLogFormatter->Evaluate(header.mBuffer) *)
(*                                                                         *)
(* Text (format strings, output streams) is a sequence of one-character    *)
(* strings.  Memory is a sequence of bytes 0..255.  A pointer to a         *)
(* formatter is NULL, Obj(n) (the n-th object allocated by                 *)
(* CreateLogFormatter), or Wild(b) (eight bytes b that are not the address *)
(* of any formatter).                                                      *)
(*                                                                         *)
(* Spec   : one thread calling LOG and Consume in any order (as main does) *)
(* SpecMT : producer threads and a consumer thread running the same code   *)
(*          statement by statement, with no synchronisation (there is      *)
(*          none in the source).                                           *)
(***************************************************************************)
EXTENDS Integers, Sequences, FiniteSets, TLC

VARIABLES
  sLogFormatter,   \* call site -> pointer: the static of the LOG macro
  heap,            \* objects made by CreateLogFormatter, in allocation order
  mBuffer,         \* sHeader.mBuffer: 128 bytes
  mLogFormatter,   \* sHeader.mLogFormatter: pointer
  status,          \* "running" | "crashed" (a call through a pointer that is no
                   \* formatter) | "smashed" (memory outside the Header written)
  rendered,        \* history: output streams of the Consume calls since the last LOG
  lastOp,          \* history: "none" | "log" | "consume"
  lastLog,         \* history: the last LOG call, [site, args], or NoCall
  pc,              \* SpecMT: thread -> position in WriteLog / Write
  frame,           \* SpecMT: thread -> locals of the running LOG call
  seen             \* SpecMT: history of what the consumer read, [fmtr, out, torn]

vars == <<sLogFormatter, heap, mBuffer, mLogFormatter, status, rendered,
          lastOp, lastLog, pc, frame, seen>>

-----------------------------------------------------------------------------
(* Bounds of the exploration *)

MaxConsumes == 2
MaxHeap == 8
MaxCallsPerThread == 1

(* Program constants *)

Capacity == 128
PtrSize == 8

NULL == [k |-> "null", n |-> 0, b |-> <<>>]
Obj(n) == [k |-> "obj", n |-> n, b |-> <<>>]
Wild(b) == [k |-> "wild", n |-> 0, b |-> b]
NoCall == [site |-> "none", args |-> <<>>, argSize |-> 0, buffer |-> 0, writes |-> <<>>]

-----------------------------------------------------------------------------
(* Argument types and their object representation (x86-64, little endian) *)

SizeOf(type) ==
  CASE type = "int" -> 4
    [] type = "char" -> 1
    [] type = "double" -> 8

Zeros(n) == [i \in 1..n |-> 0]

\* value bits of an int as an unsigned 31-bit number plus the sign bit
IntBytes(v) ==
  LET u == IF v >= 0 THEN v ELSE (v + 2147483647) + 1
      top == IF v >= 0 THEN 0 ELSE 128
  IN  << u % 256, (u \div 256) % 256, (u \div 65536) % 256,
         ((u \div 16777216) % 128) + top >>

BytesInt(b) ==
  LET u == b[1] + 256 * b[2] + 65536 * b[3] + 16777216 * (b[4] % 128)
  IN  IF b[4] >= 128 THEN (u - 2147483647) - 1 ELSE u

\* the characters the model uses, with their codes
CharTable ==
  { [c |-> "a", code |-> 97], [c |-> "z", code |-> 122] }

CharBytes(c) == << (CHOOSE e \in CharTable : e.c = c).code >>

\* the doubles the model uses: IEEE-754 binary64 bytes and the text that
\* operator<<(double) prints (precision 6, %g style)
DoubleTable ==
  { [d |-> "42.3", bytes |-> <<102, 102, 102, 102, 102, 38, 69, 64>>,
     text |-> <<"4", "2", ".", "3">>],
    [d |-> "0.0", bytes |-> <<0, 0, 0, 0, 0, 0, 0, 0>>,
     text |-> <<"0">>],
    [d |-> "1234567.0", bytes |-> <<0, 0, 0, 0, 135, 214, 50, 65>>,
     text |-> <<"1", ".", "2", "3", "4", "5", "7", "e", "+", "0", "6">>] }

DoubleBytes(d) == (CHOOSE e \in DoubleTable : e.d = d).bytes

\* memcpy(buffer, &arg, sizeof(arg)): the bytes of the argument object
ObjectBytes(type, v) ==
  CASE type = "int" -> IntBytes(v)
    [] type = "char" -> CharBytes(v)
    [] type = "double" -> DoubleBytes(v)

-----------------------------------------------------------------------------
(* operator<< of the standard library, on a value read back from memory *)

RECURSIVE Digits(_)
Digits(n) ==
  LET d == <<"0", "1", "2", "3", "4", "5", "6", "7", "8", "9">>
  IN  IF n < 10 THEN << d[n + 1] >> ELSE Digits(n \div 10) \o << d[(n % 10) + 1] >>

\* -2147483648 has no positive counterpart in 32 bits
IntText(v) ==
  IF v >= 0 THEN Digits(v)
  ELSE IF v = (0 - 2147483647) - 1
       THEN <<"-", "2", "1", "4", "7", "4", "8", "3", "6", "4", "8">>
       ELSE <<"-">> \o Digits(0 - v)

\* a byte of unknown value is -1; bytes that are no value of the tables
\* print as the marker "?"
StreamOut(type, bytes) ==
  CASE type = "int" ->
         IF \E i \in 1..4 : bytes[i] < 0 THEN <<"?">> ELSE IntText(BytesInt(bytes))
    [] type = "char" ->
         IF \E e \in CharTable : e.code = bytes[1]
         THEN << (CHOOSE e \in CharTable : e.code = bytes[1]).c >>
         ELSE <<"?">>
    [] type = "double" ->
         IF \E e \in DoubleTable : e.bytes = bytes
         THEN (CHOOSE e \in DoubleTable : e.bytes = bytes).text
         ELSE <<"?">>

-----------------------------------------------------------------------------
(* The static Header of GetNextHeader, as memory addressed from mBuffer[0]: *)
(* offsets 0..127 are mBuffer, offsets 128..135 are mLogFormatter.          *)

HeaderSize == Capacity + PtrSize

\* the object representation of a pointer; the bytes of a heap address are
\* not known to the model (-1)
PtrBytes(ptr) ==
  CASE ptr.k = "null" -> Zeros(PtrSize)
    [] ptr.k = "obj" -> [i \in 1..PtrSize |-> 0 - 1]
    [] ptr.k = "wild" -> ptr.b

BytesPtr(b) == IF b = Zeros(PtrSize) THEN NULL ELSE Wild(b)

ReadByte(hdr, off) ==
  IF off < Capacity THEN hdr.mBuffer[off + 1]
  ELSE IF off < HeaderSize THEN PtrBytes(hdr.mLogFormatter)[(off - Capacity) + 1]
  ELSE 0 - 1

ReadBytes(hdr, off, n) == [i \in 1..n |-> ReadByte(hdr, off + (i - 1))]

\* memcpy of bytes to offset off; smashed counts the bytes that land
\* outside the Header object
StoreBytes(hdr, off, bytes) ==
  LET n == Len(bytes)
      flat == hdr.mBuffer \o PtrBytes(hdr.mLogFormatter)
      keep == IF off < HeaderSize THEN off ELSE HeaderSize
      all == SubSeq(flat, 1, keep) \o bytes \o SubSeq(flat, off + n + 1, HeaderSize)
      out == IF off + n > HeaderSize
             THEN (IF off < HeaderSize THEN (off + n) - HeaderSize ELSE n)
             ELSE 0
  IN  [mBuffer |-> SubSeq(all, 1, Capacity),
       mLogFormatter |-> IF n > 0 /\ off + n > Capacity
                         THEN BytesPtr(SubSeq(all, Capacity + 1, HeaderSize))
                         ELSE hdr.mLogFormatter,
       smashed |-> hdr.smashed + out]

-----------------------------------------------------------------------------
(* LogWriter: GetArgsSize, CopyArg, CopyArgs.  An argument is [type, v].    *)

TypesOf(args) == [i \in 1..Len(args) |-> args[i].type]

GetArgSize(arg) == SizeOf(arg.type)

RECURSIVE GetArgsSize(_)
GetArgsSize(args) ==
  IF args = <<>> THEN 0
  ELSE GetArgSize(Head(args)) + GetArgsSize(Tail(args))

\* variant: the advanced pointer is lost
CopyArgNoAdvance(hdr, buffer, arg) ==
  [hdr |-> StoreBytes(hdr, buffer, ObjectBytes(arg.type, arg.v)),
   buffer |-> buffer]

\* returns the memory and the advanced buffer pointer (an offset)
CopyArg(hdr, buffer, arg) ==
  [hdr |-> StoreBytes(hdr, buffer, ObjectBytes(arg.type, arg.v)),
   buffer |-> buffer + SizeOf(arg.type)]

\* writes: history of the offsets the arguments were copied to
RECURSIVE CopyArgs(_, _, _, _)
CopyArgs(hdr, buffer, args, writes) ==
  IF args = <<>> THEN [hdr |-> hdr, buffer |-> buffer, writes |-> writes]
  ELSE \* r ranges over the one result of CopyArg
       CHOOSE c \in { CopyArgs(r.hdr, r.buffer, Tail(args), Append(writes, buffer)) :
                        r \in {CopyArg(hdr, buffer, Head(args))} } : TRUE

GetLogBuffer(hdr, logFormatter, sizeRequired) ==
  [hdr |-> [hdr EXCEPT !.mLogFormatter = logFormatter], buffer |-> 0]

Write(hdr, logFormatter, args) ==
  LET argSize == GetArgsSize(args)
  IN  CHOOSE w \in { [hdr |-> c.hdr, argSize |-> argSize, buffer |-> c.buffer,
                       writes |-> c.writes] :
                      c \in { CopyArgs(g.hdr, g.buffer, args, <<>>) :
                               g \in {GetLogBuffer(hdr, logFormatter, argSize)} } } : TRUE

-----------------------------------------------------------------------------
(* LogFormatter<T...>: FormatArg, Format, Evaluate                          *)

\* std::strstr(formatString, "%"): index of the first '%', 0 for a null result
StrStr(formatString) ==
  IF \E i \in 1..Len(formatString) : formatString[i] = "%"
  THEN CHOOSE i \in 1..Len(formatString) :
         formatString[i] = "%" /\ \A j \in 1..(i - 1) : formatString[j] # "%"
  ELSE 0

\* variant: every argument is taken to fill an aligned 8-byte slot
FormatArgWord(type, outputStream, hdr, argsData) ==
  [out |-> outputStream \o StreamOut(type, ReadBytes(hdr, argsData, SizeOf(type))),
   argsData |-> argsData + PtrSize]

\* returns the stream and the advanced data pointer (an offset from mBuffer)
FormatArg(type, outputStream, hdr, argsData) ==
  [out |-> outputStream \o StreamOut(type, ReadBytes(hdr, argsData, SizeOf(type))),
   argsData |-> argsData + SizeOf(type)]

\* reads: history of the offsets the arguments were read at
RECURSIVE Format(_, _, _, _, _, _)
Format(T, outputStream, formatString, hdr, argsData, reads) ==
  IF T = <<>>
  THEN [out |-> outputStream \o formatString, argsData |-> argsData,
        reads |-> reads, ub |-> FALSE]
  ELSE LET firstPlaceholder == StrStr(formatString)
       IN  IF firstPlaceholder = 0
           THEN \* write(formatString, nullptr - formatString)
                [out |-> outputStream, argsData |-> argsData,
                 reads |-> reads, ub |-> TRUE]
           ELSE \* r ranges over the one result of FormatArg
                CHOOSE f \in
                  { Format(Tail(T), r.out,
                           SubSeq(formatString, firstPlaceholder + 1, Len(formatString)),
                           hdr, r.argsData, Append(reads, argsData)) :
                    r \in { FormatArg(Head(T),
                                      outputStream \o SubSeq(formatString, 1, firstPlaceholder - 1),
                                      hdr, argsData) } } : TRUE

\* obj is the LogFormatter object: [mFormatString, T]
Evaluate(obj, hdr, outputStream) ==
  Format(obj.T, outputStream, obj.mFormatString, hdr, 0, <<>>)

-----------------------------------------------------------------------------
(* LOG: the arity check of the macro                                        *)

sizeof_args(args) == Len(args)

\* variant: the count stops at the first '%'
RECURSIVE CountPlaceholdersFirst(_)
CountPlaceholdersFirst(formatString) ==
  IF formatString = <<>> THEN 0
  ELSE IF Head(formatString) = "%" THEN 1
       ELSE CountPlaceholdersFirst(Tail(formatString))

RECURSIVE CountPlaceholders(_)
CountPlaceholders(formatString) ==
  IF formatString = <<>> THEN 0
  ELSE (IF Head(formatString) = "%" THEN 1 ELSE 0)
       + CountPlaceholders(Tail(formatString))

StaticAssert(formatString, args) ==
  CountPlaceholders(formatString) = sizeof_args(args)

-----------------------------------------------------------------------------
(* The call sites of the program and the arguments passed at each           *)

I(v) == [type |-> "int", v |-> v]
C(v) == [type |-> "char", v |-> v]
D(v) == [type |-> "double", v |-> v]

Ints == {1, 0 - 2, 70000}
Chars == {e.c : e \in CharTable}
Doubles == {e.d : e \in DoubleTable}

\* the least number of doubles that does not fit mBuffer
NumWide == (Capacity \div SizeOf("double")) + 1

\* hello is the call of main; wide passes 17 doubles (136 bytes);
\* few and many are the calls the static_assert is there to stop
CallSites ==
  { [id |-> "hello",
     fmt |-> <<"H","e","l","l","o"," ","i","n","t","=","%"," ","c","h","a","r",
               "=","%"," ","f","l","o","a","t","=","%">>],
    [id |-> "pair", fmt |-> <<"%","|","%","!">>],
    [id |-> "plain", fmt |-> <<"o","k">>],
    [id |-> "wide", fmt |-> [i \in 1..NumWide |-> "%"]],
    [id |-> "few", fmt |-> <<"a","%"," ","b","%">>],
    [id |-> "many", fmt |-> <<"n">>] }

SiteIds == {s.id : s \in CallSites}
SiteOf(id) == CHOOSE s \in CallSites : s.id = id

ArgSeqs(id) ==
  CASE id = "hello" -> {<<I(i), C(c), D(d)>> : i \in Ints, c \in Chars,
                                                 d \in {"42.3", "1234567.0"}}
    [] id = "pair" -> {<<C("z"), I(i)>> : i \in Ints}
    [] id = "plain" -> {<<>>}
    [] id = "wide" -> {[i \in 1..NumWide |-> D(d)] : d \in {"42.3", "0.0"}}
    [] id = "few" -> {<<I(1)>>}
    [] id = "many" -> {<<C("a")>>}

-----------------------------------------------------------------------------
(* State *)

Header == [mBuffer |-> mBuffer, mLogFormatter |-> mLogFormatter, smashed |-> 0]

Threads == {"t1", "t2"}

IdleFrame == [site |-> "none", args |-> <<>>, todo |-> <<>>, fmtr |-> NULL,
              buffer |-> 0, calls |-> 0]

Init ==
  /\ sLogFormatter = [id \in SiteIds |-> NULL]
  /\ heap = <<>>
  /\ mBuffer = Zeros(Capacity)
  /\ mLogFormatter = NULL
  /\ status = "running"
  /\ rendered = <<>>
  /\ lastOp = "none"
  /\ lastLog = NoCall
  /\ pc = [t \in Threads |-> "idle"]
  /\ frame = [t \in Threads |-> IdleFrame]
  /\ seen = <<>>

-----------------------------------------------------------------------------
(* Spec: LOG and Consume called from one thread                             *)

\* variant: the cached pointer is not looked at
IsUnsetAlways(logFormatter) == TRUE

\* WriteLog's test: *logFormatter == nullptr
IsUnset(logFormatter) == logFormatter = NULL

CreateLogFormatter(h, formatString, args) ==
  Append(h, [mFormatString |-> formatString, T |-> TypesOf(args)])

\* the LOG macro at call site id with arguments args
LOG(id, args) ==
  LET site == SiteOf(id)
      first == IsUnset(sLogFormatter[id])
      h == IF first THEN CreateLogFormatter(heap, site.fmt, args) ELSE heap
      p == IF first THEN Obj(Len(h)) ELSE sLogFormatter[id]
  IN  /\ status = "running"
      /\ StaticAssert(site.fmt, args)
      /\ Len(h) <= MaxHeap
      /\ \E w \in {Write(Header, p, args)} :
           /\ heap' = h
           /\ sLogFormatter' = [sLogFormatter EXCEPT ![id] = p]
           /\ mBuffer' = w.hdr.mBuffer
           /\ mLogFormatter' = w.hdr.mLogFormatter
           /\ status' = IF w.hdr.smashed > 0 THEN "smashed" ELSE "running"
           /\ rendered' = <<>>
           /\ lastOp' = "log"
           /\ lastLog' = [site |-> id, args |-> args, argSize |-> w.argSize,
                          buffer |-> w.buffer, writes |-> w.writes]
           /\ UNCHANGED <<pc, frame, seen>>

\* variant: the consumer wipes the payload after rendering it
ConsumeAndClear ==
  /\ status = "running"
  /\ Len(rendered) < MaxConsumes
  /\ lastOp' = "consume"
  /\ mLogFormatter.k = "obj"
  /\ rendered' = Append(rendered, Evaluate(heap[mLogFormatter.n], Header, <<>>))
  /\ mBuffer' = Zeros(Capacity)
  /\ UNCHANGED <<sLogFormatter, heap, mLogFormatter, status, lastLog, pc, frame, seen>>

\* LogConsumer::Consume(GetNextHeader(), a fresh outputStream)
Consume ==
  /\ status = "running"
  /\ Len(rendered) < MaxConsumes
  /\ lastOp' = "consume"
  /\ IF mLogFormatter.k = "obj"
     THEN \E e \in {Evaluate(heap[mLogFormatter.n], Header, <<>>)} :
              /\ rendered' = Append(rendered, e)
              /\ status' = IF e.ub THEN "crashed" ELSE "running"
     ELSE \* a virtual call through a null or wild pointer
          /\ rendered' = rendered
          /\ status' = "crashed"
  /\ UNCHANGED <<sLogFormatter, heap, mBuffer, mLogFormatter, lastLog, pc, frame, seen>>

Next ==
  \/ \E id \in SiteIds : \E args \in ArgSeqs(id) : LOG(id, args)
  \/ Consume

Spec == Init /\ [][Next]_vars

-----------------------------------------------------------------------------
(* SpecMT: the same code run by two producer threads and a consumer, one    *)
(* statement at a time.  The source has no lock, atomic or fence, so any    *)
(* interleaving of the statements is a possible execution.                  *)

ArgSeqsMT(id) ==
  CASE id = "hello" -> {<<I(1), C("a"), D("42.3")>>, <<I(0 - 2), C("z"), D("1234567.0")>>}
    [] id = "pair" -> {<<C("z"), I(1)>>}
    [] OTHER -> {}

\* LOG: the call begins (the static_assert holds for the call)
Begin(t, id, args) ==
  /\ status = "running"
  /\ pc[t] = "idle"
  /\ frame[t].calls < MaxCallsPerThread
  /\ StaticAssert(SiteOf(id).fmt, args)
  /\ pc' = [pc EXCEPT ![t] = "test"]
  /\ frame' = [frame EXCEPT ![t] = [site |-> id, args |-> args, todo |-> <<>>,
                                    fmtr |-> NULL, buffer |-> 0,
                                    calls |-> frame[t].calls + 1]]
  /\ UNCHANGED <<sLogFormatter, heap, mBuffer, mLogFormatter, status, rendered,
                 lastOp, lastLog, seen>>

\* if (*logFormatter == nullptr)
Test(t) ==
  /\ status = "running"
  /\ pc[t] = "test"
  /\ pc' = [pc EXCEPT ![t] = IF IsUnset(sLogFormatter[frame[t].site])
                             THEN "new" ELSE "write"]
  /\ UNCHANGED <<sLogFormatter, heap, mBuffer, mLogFormatter, status, rendered,
                 lastOp, lastLog, frame, seen>>

\* logWriter.CreateLogFormatter<LogFormatter<Args...>>(formatString)
New(t) ==
  /\ status = "running"
  /\ pc[t] = "new"
  /\ Len(heap) < MaxHeap
  /\ heap' = CreateLogFormatter(heap, SiteOf(frame[t].site).fmt, frame[t].args)
  /\ frame' = [frame EXCEPT ![t].fmtr = Obj(Len(heap) + 1)]
  /\ pc' = [pc EXCEPT ![t] = "assign"]
  /\ UNCHANGED <<sLogFormatter, mBuffer, mLogFormatter, status, rendered,
                 lastOp, lastLog, seen>>

\* *logFormatter = <the new object>
Assign(t) ==
  /\ status = "running"
  /\ pc[t] = "assign"
  /\ sLogFormatter' = [sLogFormatter EXCEPT ![frame[t].site] = frame[t].fmtr]
  /\ pc' = [pc EXCEPT ![t] = "write"]
  /\ UNCHANGED <<heap, mBuffer, mLogFormatter, status, rendered,
                 lastOp, lastLog, frame, seen>>

\* Write(**logFormatter, args...) up to the return of GetLogBuffer: the
\* static is read again and its target stored in the header
GetBuf(t) ==
  /\ status = "running"
  /\ pc[t] = "write"
  /\ LET g == GetLogBuffer(Header, sLogFormatter[frame[t].site], GetArgsSize(frame[t].args))
     IN  /\ mLogFormatter' = g.hdr.mLogFormatter
         /\ frame' = [frame EXCEPT ![t].fmtr = g.hdr.mLogFormatter, ![t].buffer = g.buffer,
                                   ![t].todo = frame[t].args]
  /\ pc' = [pc EXCEPT ![t] = IF frame[t].args = <<>> THEN "idle" ELSE "copy"]
  /\ UNCHANGED <<sLogFormatter, heap, mBuffer, status, rendered, lastOp, lastLog, seen>>

\* CopyArgs: one CopyArg, then the tail
Copy(t) ==
  /\ status = "running"
  /\ pc[t] = "copy"
  /\ \E r \in {CopyArg(Header, frame[t].buffer, Head(frame[t].todo))} :
         /\ mBuffer' = r.hdr.mBuffer
         /\ mLogFormatter' = r.hdr.mLogFormatter
         /\ status' = IF r.hdr.smashed > 0 THEN "smashed" ELSE "running"
         /\ frame' = [frame EXCEPT ![t].buffer = r.buffer, ![t].todo = Tail(frame[t].todo)]
  /\ pc' = [pc EXCEPT ![t] = IF Tail(frame[t].todo) = <<>> THEN "idle" ELSE "copy"]
  /\ UNCHANGED <<sLogFormatter, heap, rendered, lastOp, lastLog, seen>>

\* the consumer thread: Consume(GetNextHeader(), a fresh outputStream).
\* torn: the formatter reference in the header is the one a producer stored
\* and that producer is still inside CopyArgs
ConsumeMT ==
  /\ status = "running"
  /\ Len(seen) < MaxConsumes
  /\ IF mLogFormatter.k = "obj"
     THEN \E e \in {Evaluate(heap[mLogFormatter.n], Header, <<>>)} :
              /\ seen' = Append(seen,
                   [fmtr |-> mLogFormatter, out |-> e.out,
                    torn |-> \E t \in Threads :
                               pc[t] = "copy" /\ frame[t].fmtr = mLogFormatter])
              /\ status' = IF e.ub THEN "crashed" ELSE "running"
     ELSE /\ seen' = seen
          /\ status' = "crashed"
  /\ UNCHANGED <<sLogFormatter, heap, mBuffer, mLogFormatter, rendered,
                 lastOp, lastLog, pc, frame>>

NextMT ==
  \/ \E t \in Threads : \E id \in SiteIds : \E args \in ArgSeqsMT(id) : Begin(t, id, args)
  \/ \E t \in Threads : Test(t)
  \/ \E t \in Threads : New(t)
  \/ \E t \in Threads : Assign(t)
  \/ \E t \in Threads : GetBuf(t)
  \/ \E t \in Threads : Copy(t)
  \/ ConsumeMT

SpecMT == Init /\ [][NextMT]_vars

-----------------------------------------------------------------------------
(* Properties of SpecMT                                                     *)

Made(id) == {n \in 1..Len(heap) : heap[n].mFormatString = SiteOf(id).fmt}

\* C3: descriptor race-freedom. However the threads interleave on the first
\* LOG of a call site, one descriptor is constructed for the site and every
\* record of the site references it.
DescriptorRaceFree ==
  /\ \A id \in SiteIds : Cardinality(Made(id)) <= 1
  /\ \A t \in Threads :
       pc[t] = "copy" => frame[t].fmtr = sLogFormatter[frame[t].site]

\* C9: no partial record is observable. The consumer never reads a header
\* whose formatter reference is that of a call whose payload copy has not
\* finished.
NoPartialRecord ==
  \A i \in 1..Len(seen) : ~seen[i].torn

-----------------------------------------------------------------------------
(* Reference definitions used by the properties                             *)

\* the text form of an argument value, from the value and not from memory
TextOf(arg) ==
  CASE arg.type = "int" -> IntText(arg.v)
    [] arg.type = "char" -> << arg.v >>
    [] arg.type = "double" -> (CHOOSE e \in DoubleTable : e.d = arg.v).text

\* the format string with the i-th '%' replaced by the text of the i-th argument
RECURSIVE Substitute(_, _)
Substitute(fmt, args) ==
  IF fmt = <<>> THEN <<>>
  ELSE IF Head(fmt) = "%" /\ args # <<>>
       THEN TextOf(Head(args)) \o Substitute(Tail(fmt), Tail(args))
       ELSE << Head(fmt) >> \o Substitute(Tail(fmt), args)

Percents(fmt) == Cardinality({i \in 1..Len(fmt) : fmt[i] = "%"})

\* the offset of the i-th argument when the arguments are packed
RECURSIVE PackedOffset(_, _)
PackedOffset(args, i) ==
  IF i = 1 THEN 0 ELSE PackedOffset(args, i - 1) + SizeOf(args[i - 1].type)

Logged == lastLog.site # "none"
Fits == lastLog.argSize <= Capacity

-----------------------------------------------------------------------------
(* Properties of Spec                                                       *)

OverflowSafety ==
  [][ (lastOp' = "log" /\ lastLog'.argSize > Capacity) =>
        (mBuffer' = mBuffer /\ mLogFormatter' = mLogFormatter) ]_vars

NoOverwrite ==
  [][ (lastOp = "log" /\ lastOp' = "log") =>
        (mBuffer' = mBuffer /\ mLogFormatter' = mLogFormatter) ]_vars

\* C6: arity check. Only calls whose format string has as many '%' as there
\* are arguments get a descriptor or write a record.
ArityCheck ==
  /\ \A n \in 1..Len(heap) : Percents(heap[n].mFormatString) = Len(heap[n].T)
  /\ \A a \in SiteIds :
       sLogFormatter[a] # NULL =>
         \A args \in ArgSeqs(a) : Percents(SiteOf(a).fmt) = Len(args)
  /\ Logged => Percents(SiteOf(lastLog.site).fmt) = Len(lastLog.args)
  /\ (mBuffer # Zeros(Capacity) \/ mLogFormatter # NULL) => Logged

ArityCheckWitness ==
  /\ lastLog.site = "pair"
  /\ mLogFormatter.k = "obj"
  /\ Len(heap[mLogFormatter.n].T) = 2
  /\ sLogFormatter["few"] = NULL
  /\ sLogFormatter["many"] = NULL

\* C7: Evaluate purity. Consume changes neither the payload, nor the
\* formatter reference, nor any descriptor, and two Consume calls on the
\* same record, each with a fresh stream, render the same text.
EvaluatePurity ==
  /\ [](\A i, j \in 1..Len(rendered) : rendered[i].out = rendered[j].out)
  /\ [][ lastOp' = "consume" =>
           (mBuffer' = mBuffer /\ mLogFormatter' = mLogFormatter /\ heap' = heap) ]_vars

EvaluatePurityWitness ==
  /\ Len(rendered) = 2
  /\ lastLog.args # <<>>
  /\ rendered[1].out = rendered[2].out
  /\ rendered[2].out # <<>>

\* C8: Consume delivers only published records, each once. Consume never
\* evaluates a header whose formatter reference is unset, and never renders
\* the same record a second time.
ConsumeOnce ==
  /\ (~Logged) => status = "running"
  /\ Len(rendered) <= 1

\* C10: layout agreement. GetArgsSize equals the number of bytes CopyArgs
\* writes; the arguments are packed in call order; Evaluate reads each
\* argument at the offset it was written at and its cursor ends at that size.
LayoutAgreement ==
  Logged =>
    /\ lastLog.argSize = lastLog.buffer
    /\ Len(lastLog.writes) = Len(lastLog.args)
    /\ \A i \in 1..Len(lastLog.args) : lastLog.writes[i] = PackedOffset(lastLog.args, i)
    /\ lastLog.argSize = PackedOffset(lastLog.args, Len(lastLog.args) + 1)
    /\ \A i \in 1..Len(rendered) :
         /\ rendered[i].reads = lastLog.writes
         /\ rendered[i].argsData = lastLog.argSize

LayoutAgreementWitness ==
  /\ lastLog.site = "hello"
  /\ lastLog.writes = <<0, 4, 5>>
  /\ lastLog.argSize = 13
  /\ rendered # <<>>
  /\ rendered[1].reads = <<0, 4, 5>>
  /\ rendered[1].argsData = 13

=============================================================================
